---- MODULE Spec2Model ----
(***************************************************************************)
(* The worker pool of package module (WorkerModule): the task registry,    *)
(* the submission queue, the scheduler goroutine with its priority flush,  *)
(* the dispatch queue, the worker goroutines, retry handling, CancelTask   *)
(* and the Start/Stop lifecycle.                                           *)
(*                                                                         *)
(* A *TaskInfo is a pointer: records live in recs (index = allocation      *)
(* order = submission order) and the registry tasks maps an identifier to  *)
(* the index of the record it currently names.  Channels are sequences     *)
(* with a closed flag.  A goroutine's position is a pc.  An unrecovered    *)
(* Go panic ends the process: fault records it and no step follows.        *)
(***************************************************************************)
EXTENDS Integers, Sequences, FiniteSets

\* ---- bounds of the model
MaxTasks == 2
MaxPrio == 2
MaxRetry == 1
MaxWorkers == 2
\* capacity of the two buffered channels (100 in the source), scaled down
QueueCap == 2
MaxWindow == 1
\* tasks submitted in a run of the flush pipeline alone
MaxBatch == 3
\* EventBus: subscriptions made, Publish calls begun, publishing goroutines,
\* largest buffer argument of Subscribe
MaxSubs == 2
MaxPublish == 3
MaxPublishers == 2
MaxBuffer == 1
\* Container: goroutines calling Get, provider invocations, Provide calls,
\* Delete calls
MaxGetters == 2
MaxCalls == 2
MaxProvide == 2
MaxDelete == 1
\* Clear calls
MaxClear == 1
\* Start calls on one pool, and goroutines inside SubmitTask at the same time
MaxStarts == 2
MaxSubmitters == 2
\* tasks submitted to a pool that is started more than once and cancelled
MaxCtxTasks == 1

VARIABLES
    workerCount,   \* wm.workerCount
    starts,        \* the Start calls so far: the context each was given
    now,           \* last reading of time.Now().UnixNano() (generateTaskID)
    tasks,         \* wm.tasks: identifier -> record index
    recs,          \* the TaskInfo records, in allocation order
    submitQueue,   \* wm.submitQueue (buffered channel)
    taskQueue,     \* wm.taskQueue (buffered channel)
    submitClosed,  \* close(wm.submitQueue) happened
    taskClosed,    \* close(wm.taskQueue) happened
    quitClosed,    \* close(wm.quit) happened
    ctxDone,       \* per context: it is cancelled
    pendingTasks,  \* per scheduler goroutine: its local slice pendingTasks
    schedPc,       \* per scheduler goroutine: select, flush, exited
    batch,         \* per scheduler: flushPendingTasks, sorted records still to be sent
    schedExit,     \* per scheduler: the flush in progress is followed by return
    wpc,           \* per worker goroutine: select, start, exec, exited
    wtask,         \* per worker goroutine: the record it holds (0: none)
    stopPc,        \* position of the Stop call: idle, closedQuit, closedSubmit, returned
    stopCalls,     \* number of Stop calls begun
    fault,         \* "none", or the panic that ended the process
    ret,           \* what the last step completed: a call that returned, with its
                   \* result, or the ticker case of a scheduler
    window,        \* number of ticker firings that closed a non-empty window
    submitting,    \* records registered by a SubmitTask call that has not reached its send
    held,          \* the *TaskInfo a GetTaskInfo caller holds, and what it read then
    \* ---- package eventbus: EventBus
    subs,          \* b.subs: topic -> set of subscription ids
    next,          \* b.next
    chans,         \* the subscriber channels, by subscription id
    dropped,       \* b.dropped
    pubs,          \* the Publish call of each publishing goroutine
    published,     \* number of Publish calls begun
    busCall,       \* the Subscribe/Unsubscribe call that has just returned
    \* ---- package ioc: Container
    providers,     \* c.providers: key -> provider
    singleton,     \* c.singleton
    instances,     \* c.instances
    once,          \* c.once: key -> sync.Once object
    onces,         \* the sync.Once objects, in allocation order
    gets,          \* the Get call of each calling goroutine
    calls,         \* provider invocations, per key
    made,          \* instances the providers have created, per key
    provides,      \* Provide calls, per key
    deletes,       \* Delete calls, per key
    returned,      \* values that Get has returned with ok = true, per key
    clears,        \* Clear calls
    singles,       \* keys that a Provide call has registered with singleton = true
    \* ---- executeTask: the deadline of context.WithTimeout
    expired,       \* <<record, execution number>> of the executions whose deadline passed
    \* ---- wm.tasksMutex and the accesses to one record's fields
    mu,            \* wm.tasksMutex: the unit holding it exclusively, the units sharing it
    lpc,           \* position of each execution unit in its code
    access,        \* the field accesses each execution unit is performing
    shared         \* the mutable fields of the record the units work on

poolVars == <<workerCount, starts, now, tasks, recs, submitQueue, taskQueue,
              submitClosed, taskClosed, quitClosed, ctxDone, pendingTasks, schedPc,
              batch, schedExit, wpc, wtask, stopPc, stopCalls, fault, ret, window,
              submitting>>
busVars == <<subs, next, chans, dropped, pubs, published, busCall>>
iocVars == <<providers, singleton, instances, once, onces, gets, calls, made,
             provides, deletes, returned, clears, singles>>
lockVars == <<mu, lpc, access, shared>>
vars == <<poolVars, held, busVars, iocVars, expired, lockVars>>

\* what lies outside the worker pool
outside == <<held, busVars, iocVars, expired, lockVars>>

\* what the scheduler, the workers and the methods of the worker pool leave
\* alone, but for GetTaskInfo (held), the deadline timer (expired) and
\* SubmitTask (submitting)
others == <<outside, submitting>>

\* the worker pool but for the panic that ends the process
poolState == <<workerCount, starts, now, tasks, recs, submitQueue, taskQueue,
               submitClosed, taskClosed, quitClosed, ctxDone, pendingTasks,
               schedPc, batch, schedExit, wpc, wtask, stopPc, stopCalls, ret,
               window, submitting>>

\* the worker goroutines and the scheduler goroutines spawned so far: every
\* Start call adds workerCount workers and one scheduler
Workers == DOMAIN wpc
Scheds == DOMAIN schedPc
Ptrs == 1..Len(recs)

\* the contexts a caller may hand to Start
Contexts == 1..MaxStarts

\* Start has been called
started == starts # <<>>

\* the Start call that spawned worker w (scheduler s is of the s-th call), and
\* the context that worker w and scheduler s were started with
Gen(w) == ((w - 1) \div workerCount) + 1
WorkerCtx(w) == starts[Gen(w)]
SchedCtx(s) == starts[s]

\* TaskStatus
TaskStatusPending == "Pending"
TaskStatusRunning == "Running"
TaskStatusCompleted == "Completed"
TaskStatusFailed == "Failed"
TaskStatusCancelled == "Cancelled"

Range(s) == {s[i] : i \in 1..Len(s)}

\* ret while the last step completed neither a call nor a ticker case
NoCall == [op |-> "none", id |-> 0, result |-> "none"]

\* ---- NewWorkerModule
NewWorkerModule(n) ==
    /\ workerCount = (IF n <= 0 THEN 1 ELSE n)
    /\ starts = <<>>
    /\ now = 0
    /\ tasks = <<>>
    /\ recs = <<>>
    /\ submitQueue = <<>>
    /\ taskQueue = <<>>
    /\ submitClosed = FALSE
    /\ taskClosed = FALSE
    /\ quitClosed = FALSE
    /\ ctxDone = [c \in Contexts |-> FALSE]
    /\ pendingTasks = <<>>
    /\ schedPc = <<>>
    /\ batch = <<>>
    /\ schedExit = <<>>
    /\ wpc = <<>>
    /\ wtask = <<>>
    /\ stopPc = "idle"
    /\ stopCalls = 0
    /\ fault = "none"
    /\ ret = NoCall
    /\ window = 0
    /\ submitting = {}

\* held while no GetTaskInfo call has returned a record
NoHeld == [ptr |-> 0, seen |-> <<>>]

\* ---- eventbus.New
Topics == {"a", "b"}
Publishers == 1..MaxPublishers

\* a publishing goroutine that is not inside Publish
NoPublish == [pc |-> "idle", topic |-> "", payload |-> "", channels |-> {},
              snap |-> {}, handled |-> {}]

\* busCall while no Subscribe/Unsubscribe call has just returned
NoBusCall == [op |-> "none", topic |-> "", id |-> 0]

NewEventBus ==
    /\ subs = <<>>
    /\ next = 0
    /\ chans = <<>>
    /\ dropped = 0
    /\ pubs = [p \in Publishers |-> NoPublish]
    /\ published = 0
    /\ busCall = NoBusCall

\* ---- ioc.New
Keys == {"k1", "k2"}
Getters == 1..MaxGetters

\* the nil interface value, and the absent Provider
Nil == [id |-> 0, reg |-> 0]
NoProvider == [kind |-> "none", reg |-> 0]

\* a goroutine that is not inside Get
NoGet == [pc |-> "idle", key |-> "", provider |-> NoProvider, isSingleton |-> FALSE,
          once |-> 0, err |-> "nil", instance |-> Nil]

NewContainer ==
    /\ providers = <<>>
    /\ singleton = <<>>
    /\ instances = <<>>
    /\ once = <<>>
    /\ onces = <<>>
    /\ gets = [g \in Getters |-> NoGet]
    /\ calls = [k \in Keys |-> 0]
    /\ made = [k \in Keys |-> {}]
    /\ provides = [k \in Keys |-> 0]
    /\ deletes = [k \in Keys |-> 0]
    /\ returned = [k \in Keys |-> {}]
    /\ clears = 0
    /\ singles = {}

\* one registered Pending record of a task whose Retry() is retry, on its way
\* to a worker, the mutex free
Units == {"worker", "cancel", "info1", "info2"}

NewLockState(retry) ==
    /\ mu = [writer |-> "none", readers |-> {}]
    /\ lpc = [u \in Units |-> "idle"]
    /\ access = [u \in Units |-> {}]
    /\ shared = [status |-> TaskStatusPending, statusStr |-> "", retries |-> 0,
                 retry |-> retry, err |-> "nil"]

Init ==
    /\ \E n \in 0..MaxWorkers : NewWorkerModule(n)
    /\ held = NoHeld
    /\ NewEventBus
    /\ NewContainer
    /\ expired = {}
    /\ NewLockState(0)

\* the process is alive: no goroutine has panicked
Alive == fault = "none"

\* ---- generateTaskID: the identifier is built from the clock reading t
generateTaskID(t) == t

\* a record as SubmitTask builds it
NewTaskInfo(id, prio, retry) ==
    [ID |-> id, prio |-> prio, retry |-> retry, status |-> TaskStatusPending,
     retries |-> 0, err |-> "nil", statusStr |-> "",
     \* history, not fields of TaskInfo: Execute invocations, flush window of the
     \* submission, SubmitTask enqueued it, CancelTask returned true for it, a
     \* later non-blocking send of it found the queue full, the SubmitTask call
     \* began after Stop had returned
     execs |-> 0, win |-> window, accepted |-> FALSE, cancelOK |-> FALSE,
     full |-> FALSE, afterStop |-> stopPc = "returned"]

Called(op, id, result) == [op |-> op, id |-> id, result |-> result]

\* ret after scheduler s has taken case <-ticker.C of its select
Ticked(s) == [op |-> "Tick", id |-> s, result |-> "none"]

\* ---- SubmitTask, lines 130-142: build the record and register it under
\* the mutex; the mutex is released before the send
SubmitTask(t, prio, retry) ==
    LET id == generateTaskID(t)
        p == Len(recs) + 1
    IN  /\ Alive
        /\ now' = t
        /\ recs' = Append(recs, NewTaskInfo(id, prio, retry))
        /\ tasks' = [i \in DOMAIN tasks \cup {id} |-> IF i = id THEN p ELSE tasks[i]]
        /\ submitting' = submitting \cup {p}
        /\ ret' = NoCall
        /\ UNCHANGED outside
        /\ UNCHANGED <<workerCount, starts, submitQueue, taskQueue, submitClosed,
                       taskClosed, quitClosed, ctxDone, pendingTasks, schedPc, batch,
                       schedExit, wpc, wtask, stopPc, stopCalls, fault, window>>

\* ---- SubmitTask, lines 144-150: the non-blocking send of the record on
\* submitQueue, and the return
SubmitSend(p) ==
    /\ Alive
    /\ p \in submitting
    /\ submitting' = submitting \ {p}
    /\ IF submitClosed
       THEN /\ fault' = "send on closed channel: submitQueue"
            /\ ret' = Called("Submit", recs[p].ID, "panic")
            /\ UNCHANGED <<submitQueue, recs>>
       ELSE IF Len(submitQueue) < QueueCap
       THEN /\ submitQueue' = Append(submitQueue, p)
            /\ recs' = [recs EXCEPT ![p].accepted = TRUE, ![p].win = window]
            /\ ret' = Called("Submit", recs[p].ID, "ok")
            /\ UNCHANGED fault
       ELSE /\ ret' = Called("Submit", recs[p].ID, "QueueFull")
            /\ UNCHANGED <<submitQueue, recs, fault>>
    /\ UNCHANGED outside
    /\ UNCHANGED <<workerCount, starts, now, tasks, taskQueue, submitClosed,
                   taskClosed, quitClosed, ctxDone, pendingTasks, schedPc, batch,
                   schedExit, wpc, wtask, stopPc, stopCalls, window>>

\* a SubmitTask call at a later clock reading than the previous one
Submit == \E prio \in 1..MaxPrio, retry \in 0..MaxRetry :
              SubmitTask(now + 1, prio, retry)

\* a SubmitTask call that reads the clock at the same nanosecond as the
\* previous one: generateTaskID formats the same reading into the same string
SubmitSameClock == \E prio \in 1..MaxPrio, retry \in 0..MaxRetry :
                       now > 0 /\ SubmitTask(now, prio, retry)

\* ---- GetTaskInfo: under the read lock, refresh StatusStr of the record and
\* return the *TaskInfo that the registry holds (the record itself, no copy)
TaskStatusStrMap ==
    [st \in {TaskStatusPending, TaskStatusRunning, TaskStatusCompleted,
             TaskStatusFailed, TaskStatusCancelled} |->
        CASE st = TaskStatusPending -> "pending"
          [] st = TaskStatusRunning -> "running"
          [] st = TaskStatusCompleted -> "completed"
          [] st = TaskStatusFailed -> "failed"
          [] st = TaskStatusCancelled -> "cancelled"]

\* the fields of a TaskInfo that the code reads and writes
Fields(r) == [ID |-> r.ID, prio |-> r.prio, retry |-> r.retry, status |-> r.status,
              statusStr |-> r.statusStr, retries |-> r.retries, err |-> r.err]

GetTaskInfo(id) ==
    /\ Alive
    /\ IF id \in DOMAIN tasks
       THEN /\ recs' = [recs EXCEPT ![tasks[id]].statusStr =
                                        TaskStatusStrMap[recs[tasks[id]].status]]
            /\ held' = [ptr |-> tasks[id], seen |-> Fields(recs'[tasks[id]])]
            /\ ret' = Called("GetInfo", id, "true")
       ELSE /\ ret' = Called("GetInfo", id, "false")
            /\ UNCHANGED <<recs, held>>
    /\ UNCHANGED <<busVars, iocVars, expired, lockVars, submitting>>
    /\ UNCHANGED <<workerCount, starts, now, tasks, submitQueue, taskQueue,
                   submitClosed, taskClosed, quitClosed, ctxDone, pendingTasks,
                   schedPc, batch, schedExit, wpc, wtask, stopPc, stopCalls, fault,
                   window>>

\* the identifiers in the registry, and one that was never issued
GetInfo == \E id \in DOMAIN tasks \cup {now + 1} : GetTaskInfo(id)

\* ---- CancelTask
\* a CancelTask that also cancels a record in flight (tests Status against
\* the terminal statuses instead of Pending)
CancellableInFlight(id) ==
    id \in DOMAIN tasks
        /\ recs[tasks[id]].status \in {TaskStatusPending, TaskStatusRunning}

\* !exists || taskInfo.Status != TaskStatusPending, negated
Cancellable(id) == id \in DOMAIN tasks /\ recs[tasks[id]].status = TaskStatusPending

CancelTask(id) ==
    /\ Alive
    /\ IF Cancellable(id)
       THEN /\ recs' = [recs EXCEPT ![tasks[id]].status = TaskStatusCancelled,
                                    ![tasks[id]].cancelOK = TRUE]
            /\ ret' = Called("Cancel", id, "true")
       ELSE /\ ret' = Called("Cancel", id, "false")
            /\ UNCHANGED recs
    /\ UNCHANGED others
    /\ UNCHANGED <<workerCount, starts, now, tasks, submitQueue, taskQueue,
                   submitClosed, taskClosed, quitClosed, ctxDone, pendingTasks,
                   schedPc, batch, schedExit, wpc, wtask, stopPc, stopCalls, fault,
                   window>>

\* the identifiers in the registry, and one that was never issued
Cancel == \E id \in DOMAIN tasks \cup {now + 1} : CancelTask(id)

\* ---- Start(ctx, wg): spawn workerCount workers and one scheduler, with
\* nothing that tells a first call from a later one; the scheduler begins with
\* an empty pendingTasks slice and its own ticker
Start(ctx) ==
    /\ Alive
    /\ starts' = Append(starts, ctx)
    /\ wpc' = wpc \o [w \in 1..workerCount |-> "select"]
    /\ wtask' = wtask \o [w \in 1..workerCount |-> 0]
    /\ schedPc' = Append(schedPc, "select")
    /\ pendingTasks' = Append(pendingTasks, <<>>)
    /\ batch' = Append(batch, <<>>)
    /\ schedExit' = Append(schedExit, FALSE)
    /\ ret' = NoCall
    /\ UNCHANGED others
    /\ UNCHANGED <<workerCount, now, tasks, recs, submitQueue, taskQueue,
                   submitClosed, taskClosed, quitClosed, ctxDone, stopPc, stopCalls,
                   fault, window>>

\* the owner of a context cancels it
CtxCancel(ctx) ==
    /\ Alive
    /\ ~ctxDone[ctx]
    /\ ctxDone' = [ctxDone EXCEPT ![ctx] = TRUE]
    /\ ret' = NoCall
    /\ UNCHANGED others
    /\ UNCHANGED <<workerCount, starts, now, tasks, recs, submitQueue, taskQueue,
                   submitClosed, taskClosed, quitClosed, pendingTasks, schedPc,
                   batch, schedExit, wpc, wtask, stopPc, stopCalls, fault,
                   window>>

\* the first Start call of a pool, and the cancellation of its context
StartOnce == ~started /\ Start(1)
CtxCancelStarted == started /\ CtxCancel(1)

\* ---- Stop: close(quit); close(submitQueue); close(taskQueue); wm.wg.Wait().
\* Start adds the goroutines to the caller's WaitGroup, never to wm.wg, so the
\* Wait returns at once.
StopCloseQuit ==
    /\ Alive
    /\ stopCalls' = stopCalls + 1
    /\ IF quitClosed
       THEN /\ fault' = "close of closed channel: quit"
            /\ UNCHANGED <<quitClosed, stopPc>>
       ELSE /\ quitClosed' = TRUE
            /\ stopPc' = "closedQuit"
            /\ UNCHANGED fault
    /\ ret' = NoCall
    /\ UNCHANGED others
    /\ UNCHANGED <<workerCount, starts, now, tasks, recs, submitQueue, taskQueue,
                   submitClosed, taskClosed, ctxDone, pendingTasks, schedPc, batch,
                   schedExit, wpc, wtask, window>>

StopCloseSubmit ==
    /\ Alive
    /\ stopPc = "closedQuit"
    /\ submitClosed' = TRUE
    /\ stopPc' = "closedSubmit"
    /\ ret' = NoCall
    /\ UNCHANGED others
    /\ UNCHANGED <<workerCount, starts, now, tasks, recs, submitQueue, taskQueue,
                   taskClosed, quitClosed, ctxDone, pendingTasks, schedPc, batch,
                   schedExit, wpc, wtask, stopCalls, fault, window>>

StopCloseTask ==
    /\ Alive
    /\ stopPc = "closedSubmit"
    /\ taskClosed' = TRUE
    /\ stopPc' = "returned"
    /\ ret' = NoCall
    /\ UNCHANGED others
    /\ UNCHANGED <<workerCount, starts, now, tasks, recs, submitQueue, taskQueue,
                   submitClosed, quitClosed, ctxDone, pendingTasks, schedPc, batch,
                   schedExit, wpc, wtask, stopCalls, fault, window>>

\* ---- flushPendingTasks: the in-place exchange sort, then the sends
\* a swap that forgets the second assignment
SwapCopy(t, i, j) == [t EXCEPT ![i] = t[j]]

Swap(t, i, j) == [t EXCEPT ![i] = t[j], ![j] = t[i]]

\* the comparison of the sort: tasks[i].Task.Priority() < tasks[j].Task.Priority()
PriorityLess(a, b) == recs[a].prio < recs[b].prio

RECURSIVE SortInner(_, _, _)
SortInner(t, i, j) ==
    IF j > Len(t) THEN t
    ELSE SortInner(IF PriorityLess(t[i], t[j]) THEN Swap(t, i, j) ELSE t, i, j + 1)

RECURSIVE SortOuter(_, _)
SortOuter(t, i) ==
    IF i >= Len(t) THEN t ELSE SortOuter(SortInner(t, i, i + 1), i + 1)

SortByPriority(t) == SortOuter(t, 1)

\* scheduler s calls flushPendingTasks(ts); exit: it returns afterwards.  The
\* slice is handed over: pendingTasks is reset by the caller (tick) or never
\* used again (return)
BeginFlush(s, ts, exit) ==
    /\ pendingTasks' = [pendingTasks EXCEPT ![s] = <<>>]
    /\ IF ts = <<>>
       THEN /\ schedPc' = [schedPc EXCEPT ![s] = IF exit THEN "exited" ELSE "select"]
            /\ UNCHANGED <<batch, schedExit>>
       ELSE /\ schedPc' = [schedPc EXCEPT ![s] = "flush"]
            /\ batch' = [batch EXCEPT ![s] = SortByPriority(ts)]
            /\ schedExit' = [schedExit EXCEPT ![s] = exit]

\* ---- scheduler: one case of its select per action
\* case taskInfo, ok := <-wm.submitQueue, ok
SchedRecv(s) ==
    /\ Alive
    /\ schedPc[s] = "select"
    /\ submitQueue # <<>>
    /\ pendingTasks' = [pendingTasks EXCEPT ![s] = Append(@, Head(submitQueue))]
    /\ submitQueue' = Tail(submitQueue)
    /\ ret' = NoCall
    /\ UNCHANGED others
    /\ UNCHANGED <<workerCount, starts, now, tasks, recs, taskQueue, submitClosed,
                   taskClosed, quitClosed, ctxDone, schedPc, batch, schedExit, wpc,
                   wtask, stopPc, stopCalls, fault, window>>

\* case taskInfo, ok := <-wm.submitQueue, !ok: closed and drained
SchedQueueClosed(s) ==
    /\ Alive
    /\ schedPc[s] = "select"
    /\ submitQueue = <<>>
    /\ submitClosed
    /\ BeginFlush(s, pendingTasks[s], TRUE)
    /\ ret' = NoCall
    /\ UNCHANGED others
    /\ UNCHANGED <<workerCount, starts, now, tasks, recs, submitQueue, taskQueue,
                   submitClosed, taskClosed, quitClosed, ctxDone, wpc, wtask, stopPc,
                   stopCalls, fault, window>>

\* records submitted in the flush window that is still open; windows are told
\* apart up to MaxWindow, later ones count as one
InOpenWindow == {p \in Ptrs : recs[p].win = window /\ window < MaxWindow}

\* case <-ticker.C: flush when something is pending, then pendingTasks[:0]
SchedTick(s) ==
    /\ Alive
    /\ schedPc[s] = "select"
    /\ pendingTasks[s] # <<>> \/ InOpenWindow # {}
    /\ window' = (IF InOpenWindow # {} THEN window + 1 ELSE window)
    /\ IF pendingTasks[s] # <<>>
       THEN BeginFlush(s, pendingTasks[s], FALSE)
       ELSE UNCHANGED <<pendingTasks, schedPc, batch, schedExit>>
    /\ ret' = Ticked(s)
    /\ UNCHANGED others
    /\ UNCHANGED <<workerCount, starts, now, tasks, recs, submitQueue, taskQueue,
                   submitClosed, taskClosed, quitClosed, ctxDone, wpc, wtask, stopPc,
                   stopCalls, fault>>

\* case <-wm.quit
SchedQuit(s) ==
    /\ Alive
    /\ schedPc[s] = "select"
    /\ quitClosed
    /\ BeginFlush(s, pendingTasks[s], TRUE)
    /\ ret' = NoCall
    /\ UNCHANGED others
    /\ UNCHANGED <<workerCount, starts, now, tasks, recs, submitQueue, taskQueue,
                   submitClosed, taskClosed, quitClosed, ctxDone, wpc, wtask, stopPc,
                   stopCalls, fault, window>>

\* case <-ctx.Done()
SchedCtxDone(s) ==
    /\ Alive
    /\ schedPc[s] = "select"
    /\ ctxDone[SchedCtx(s)]
    /\ BeginFlush(s, pendingTasks[s], TRUE)
    /\ ret' = NoCall
    /\ UNCHANGED others
    /\ UNCHANGED <<workerCount, starts, now, tasks, recs, submitQueue, taskQueue,
                   submitClosed, taskClosed, quitClosed, ctxDone, wpc, wtask, stopPc,
                   stopCalls, fault, window>>

\* one iteration of the send loop of flushPendingTasks:
\* select { case wm.taskQueue <- task: default: (log, drop) }
SchedSend(s) ==
    /\ Alive
    /\ schedPc[s] = "flush"
    /\ batch[s] # <<>>
    /\ IF taskClosed
       THEN /\ fault' = "send on closed channel: taskQueue"
            /\ UNCHANGED <<taskQueue, batch, schedPc, recs>>
       ELSE /\ IF Len(taskQueue) < QueueCap
               THEN /\ taskQueue' = Append(taskQueue, Head(batch[s]))
                    /\ UNCHANGED recs
               ELSE /\ recs' = [recs EXCEPT ![Head(batch[s])].full = TRUE]
                    /\ UNCHANGED taskQueue
            /\ batch' = [batch EXCEPT ![s] = Tail(@)]
            /\ schedPc' = [schedPc EXCEPT ![s] =
                               IF Tail(batch[s]) # <<>> THEN "flush"
                               ELSE IF schedExit[s] THEN "exited" ELSE "select"]
            /\ UNCHANGED fault
    /\ ret' = NoCall
    /\ UNCHANGED others
    /\ UNCHANGED <<workerCount, starts, now, tasks, submitQueue, submitClosed,
                   taskClosed, quitClosed, ctxDone, pendingTasks, schedExit, wpc,
                   wtask, stopPc, stopCalls, window>>

\* ---- worker: one case of its select per action
\* case taskInfo, ok := <-wm.taskQueue, ok; then the unlocked read of Status
WorkerDequeue(w) ==
    /\ Alive
    /\ wpc[w] = "select"
    /\ taskQueue # <<>>
    /\ taskQueue' = Tail(taskQueue)
    /\ IF recs[Head(taskQueue)].status = TaskStatusCancelled
       THEN UNCHANGED <<wpc, wtask>>
       ELSE /\ wpc' = [wpc EXCEPT ![w] = "start"]
            /\ wtask' = [wtask EXCEPT ![w] = Head(taskQueue)]
    /\ ret' = NoCall
    /\ UNCHANGED others
    /\ UNCHANGED <<workerCount, starts, now, tasks, recs, submitQueue, submitClosed,
                   taskClosed, quitClosed, ctxDone, pendingTasks, schedPc, batch,
                   schedExit, stopPc, stopCalls, fault, window>>

\* a worker whose select has no case <-ctx.Done()
WorkerExitNoCtx(w) ==
    /\ Alive
    /\ wpc[w] = "select"
    /\ \/ taskQueue = <<>> /\ taskClosed
       \/ quitClosed
    /\ wpc' = [wpc EXCEPT ![w] = "exited"]
    /\ ret' = NoCall
    /\ UNCHANGED others
    /\ UNCHANGED <<workerCount, starts, now, tasks, recs, submitQueue, taskQueue,
                   submitClosed, taskClosed, quitClosed, ctxDone, pendingTasks,
                   schedPc, batch, schedExit, wtask, stopPc, stopCalls, fault,
                   window>>

\* a worker returns: taskQueue closed and drained, quit closed, or ctx done
WorkerExit(w) ==
    /\ Alive
    /\ wpc[w] = "select"
    /\ \/ taskQueue = <<>> /\ taskClosed
       \/ quitClosed
       \/ ctxDone[WorkerCtx(w)]
    /\ wpc' = [wpc EXCEPT ![w] = "exited"]
    /\ ret' = NoCall
    /\ UNCHANGED others
    /\ UNCHANGED <<workerCount, starts, now, tasks, recs, submitQueue, taskQueue,
                   submitClosed, taskClosed, quitClosed, ctxDone, pendingTasks,
                   schedPc, batch, schedExit, wtask, stopPc, stopCalls, fault,
                   window>>

\* ---- executeTask, first critical section: Status = Running; Execute is invoked
MarkRunning(p) ==
    [recs EXCEPT ![p].status = TaskStatusRunning, ![p].execs = @ + 1]

WorkerStart(w) ==
    /\ Alive
    /\ wpc[w] = "start"
    /\ recs' = MarkRunning(wtask[w])
    /\ wpc' = [wpc EXCEPT ![w] = "exec"]
    /\ ret' = NoCall
    /\ UNCHANGED others
    /\ UNCHANGED <<workerCount, starts, now, tasks, submitQueue, taskQueue,
                   submitClosed, taskClosed, quitClosed, ctxDone, pendingTasks,
                   schedPc, batch, schedExit, wtask, stopPc, stopCalls, fault,
                   window>>

\* ---- executeTask, second critical section: Execute returned err
\* a retry test that is off by one (<= for <)
ShouldRetryOffByOne(p) == recs[p].retries <= recs[p].retry

\* if taskInfo.Retries < taskInfo.Task.Retry()
ShouldRetry(p) == recs[p].retries < recs[p].retry

WorkerFinish(w, err) ==
    LET p == wtask[w] IN
    /\ Alive
    /\ wpc[w] = "exec"
    /\ wpc' = [wpc EXCEPT ![w] = "select"]
    /\ wtask' = [wtask EXCEPT ![w] = 0]
    /\ IF err = "nil"
       THEN /\ recs' = [recs EXCEPT ![p].status = TaskStatusCompleted]
            /\ UNCHANGED <<submitQueue, fault>>
       ELSE IF ShouldRetry(p)
       THEN IF submitClosed
            THEN /\ recs' = [recs EXCEPT ![p].retries = @ + 1,
                                         ![p].status = TaskStatusPending]
                 /\ fault' = "send on closed channel: submitQueue"
                 /\ UNCHANGED submitQueue
            ELSE IF Len(submitQueue) < QueueCap
            THEN /\ recs' = [recs EXCEPT ![p].retries = @ + 1,
                                         ![p].status = TaskStatusPending]
                 /\ submitQueue' = Append(submitQueue, p)
                 /\ UNCHANGED fault
            ELSE /\ recs' = [recs EXCEPT ![p].retries = @ + 1,
                                         ![p].status = TaskStatusFailed,
                                         ![p].err = err,
                                         ![p].full = TRUE]
                 /\ UNCHANGED <<submitQueue, fault>>
       ELSE /\ recs' = [recs EXCEPT ![p].status = TaskStatusFailed, ![p].err = err]
            /\ UNCHANGED <<submitQueue, fault>>
    /\ ret' = NoCall
    /\ UNCHANGED others
    /\ UNCHANGED <<workerCount, starts, now, tasks, taskQueue, submitClosed,
                   taskClosed, quitClosed, ctxDone, pendingTasks, schedPc, batch,
                   schedExit, stopPc, stopCalls, window>>

\* ---- executeTask: Execute panics.  Neither executeTask nor worker recovers:
\* the deferred cancel and wg.Done run and the panic ends the process.
ExecutePanic == "panic in Execute"

WorkerPanic(w) ==
    /\ Alive
    /\ wpc[w] = "exec"
    /\ fault' = ExecutePanic
    /\ ret' = NoCall
    /\ UNCHANGED others
    /\ UNCHANGED <<workerCount, starts, now, tasks, recs, submitQueue, taskQueue,
                   submitClosed, taskClosed, quitClosed, ctxDone, pendingTasks,
                   schedPc, batch, schedExit, wpc, wtask, stopPc, stopCalls, window>>

\* ---- executeTask: the task's Timeout() is positive and the timer of
\* context.WithTimeout fires while Execute runs: taskCtx is done.  Nothing in
\* executeTask waits on taskCtx or reads taskCtx.Err(): the worker still waits
\* for Execute to return and takes its error value as the outcome.
DeadlineExpires(w) ==
    /\ Alive
    /\ wpc[w] = "exec"
    /\ <<wtask[w], recs[wtask[w]].execs>> \notin expired
    /\ expired' = expired \cup {<<wtask[w], recs[wtask[w]].execs>>}
    /\ ret' = NoCall
    /\ UNCHANGED <<held, busVars, iocVars, lockVars, submitting>>
    /\ UNCHANGED <<workerCount, starts, now, tasks, recs, submitQueue, taskQueue,
                   submitClosed, taskClosed, quitClosed, ctxDone, pendingTasks,
                   schedPc, batch, schedExit, wpc, wtask, stopPc, stopCalls, fault,
                   window>>

\* ---- wm.tasksMutex (sync.RWMutex) and the accesses to the fields of one
\* TaskInfo.  Each section of code that touches the record is two steps, its
\* beginning (with the lock operation, if the code has one) and its end (with
\* the effect on the record and the unlock), so that sections of different
\* execution units overlap whenever the mutex lets them.
Read(f) == [field |-> f, kind |-> "read"]
Write(f) == [field |-> f, kind |-> "write"]

\* Lock() returns when no unit holds the mutex; RLock() when no writer does
CanLock == mu.writer = "none" /\ mu.readers = {}
CanRLock == mu.writer = "none"

Lock(u) == [mu EXCEPT !.writer = u]
Unlock(u) == [mu EXCEPT !.writer = "none"]
RLock(u) == [mu EXCEPT !.readers = @ \cup {u}]
RUnlock(u) == [mu EXCEPT !.readers = @ \ {u}]

\* unit u moves from one position to the next
UnitStep(u, from, to, mutex, accesses, fields) ==
    /\ Alive
    /\ lpc[u] = from
    /\ lpc' = [lpc EXCEPT ![u] = to]
    /\ mu' = mutex
    /\ access' = [access EXCEPT ![u] = accesses]
    /\ shared' = fields
    /\ UNCHANGED <<poolVars, held, busVars, iocVars, expired>>

\* worker, line 222: the record came off taskQueue; taskInfo.Status is read
\* with no lock operation before it
WorkerCheckBegin ==
    UnitStep("worker", "idle", "check", mu, {Read("status")}, shared)

\* Cancelled: continue; otherwise executeTask
WorkerCheckEnd ==
    UnitStep("worker", "check",
             IF shared.status = TaskStatusCancelled THEN "done" ELSE "run",
             mu, {}, shared)

\* executeTask, lines 304-307: Lock; Status = Running; StartedAt; Unlock
ExecuteFirstBegin ==
    /\ CanLock
    /\ UnitStep("worker", "run", "first", Lock("worker"),
                {Write("status"), Write("startedAt")}, shared)

ExecuteFirstEnd ==
    UnitStep("worker", "first", "exec", Unlock("worker"), {},
             [shared EXCEPT !.status = TaskStatusRunning])

\* executeTask, lines 320-347: Lock; EndedAt; Retries, Status, Error; Unlock
ExecuteSecondBegin ==
    /\ CanLock
    /\ UnitStep("worker", "exec", "second", Lock("worker"),
                {Write("endedAt"), Read("retries"), Write("retries"),
                 Write("status"), Write("err")}, shared)

\* lines 323-346, then the Unlock of 347.  send is what the non-blocking send
\* of the requeue meets: "sent" (room in submitQueue: the record comes back to
\* the worker through the queues), "full" (the default case) or "closed" (the
\* send panics with the mutex held)
ExecuteSecondEnd(err, send) ==
    IF err = "nil"
    THEN UnitStep("worker", "second", "done", Unlock("worker"), {},
                  [shared EXCEPT !.status = TaskStatusCompleted])
    ELSE IF shared.retries < shared.retry
    THEN CASE send = "sent" ->
                  UnitStep("worker", "second", "idle", Unlock("worker"), {},
                           [shared EXCEPT !.retries = @ + 1,
                                          !.status = TaskStatusPending])
           [] send = "full" ->
                  UnitStep("worker", "second", "done", Unlock("worker"), {},
                           [shared EXCEPT !.retries = @ + 1,
                                          !.status = TaskStatusFailed,
                                          !.err = err])
           [] send = "closed" ->
                  /\ Alive
                  /\ lpc["worker"] = "second"
                  /\ fault' = "send on closed channel: submitQueue"
                  /\ shared' = [shared EXCEPT !.retries = @ + 1,
                                              !.status = TaskStatusPending]
                  /\ UNCHANGED <<mu, lpc, access>>
                  /\ UNCHANGED <<poolState, held, busVars, iocVars, expired>>
    ELSE UnitStep("worker", "second", "done", Unlock("worker"), {},
                  [shared EXCEPT !.status = TaskStatusFailed, !.err = err])

\* CancelTask, lines 170-178: Lock; Status read, Status and EndedAt written;
\* deferred Unlock
CancelTaskBegin ==
    /\ CanLock
    /\ UnitStep("cancel", "idle", "locked", Lock("cancel"),
                {Read("status"), Write("status"), Write("endedAt")}, shared)

CancelTaskEnd ==
    UnitStep("cancel", "locked", "done", Unlock("cancel"), {},
             IF shared.status = TaskStatusPending
             THEN [shared EXCEPT !.status = TaskStatusCancelled]
             ELSE shared)

\* GetTaskInfo, lines 155-165: RLock; Status read, StatusStr written; deferred
\* RUnlock
GetTaskInfoBegin(u) ==
    /\ CanRLock
    /\ UnitStep(u, "idle", "rlocked", RLock(u),
                {Read("status"), Write("statusStr")}, shared)

GetTaskInfoEnd(u) ==
    UnitStep(u, "rlocked", "idle", RUnlock(u), {},
             [shared EXCEPT !.statusStr = TaskStatusStrMap[shared.status]])

\* ---------------------------------------------------------------------------
\* package eventbus
\* ---------------------------------------------------------------------------
DefaultBufferSize == 10

\* make(chan interface{}, buffer)
MakeChan(buffer) == [buf |-> <<>>, cap |-> buffer, closed |-> FALSE]

\* b.subs[topic], the empty set when the topic has no entry
Subscribers(topic) == IF topic \in DOMAIN subs THEN subs[topic] ELSE {}

\* ---- Subscribe, under b.mu.Lock
Subscribe(topic, buffer) ==
    LET size == IF buffer <= 0 THEN DefaultBufferSize ELSE buffer
        id == next + 1
    IN  /\ Alive
        /\ next' = id
        /\ chans' = Append(chans, MakeChan(size))
        /\ subs' = [t \in DOMAIN subs \cup {topic} |->
                       IF t = topic THEN Subscribers(topic) \cup {id} ELSE subs[t]]
        /\ busCall' = [op |-> "Subscribe", topic |-> topic, id |-> id]
        /\ UNCHANGED <<dropped, pubs, published, fault>>
        /\ UNCHANGED <<poolState, held, iocVars, expired, lockVars>>

\* ---- Unsubscribe, under b.mu.Lock
\* an Unsubscribe that leaves the emptied topic in b.subs
KeepTopic(s, topic) == s

\* if len(m) == 0 { delete(b.subs, topic) }
PruneTopic(s, topic) ==
    IF s[topic] = {} THEN [t \in DOMAIN s \ {topic} |-> s[t]] ELSE s

Unsubscribe(topic, id) ==
    /\ Alive
    /\ IF topic \in DOMAIN subs
       THEN /\ subs' = PruneTopic([subs EXCEPT ![topic] = @ \ {id}], topic)
            /\ IF id \in subs[topic]
               THEN IF chans[id].closed
                    THEN /\ fault' = "close of closed channel: subscriber"
                         /\ UNCHANGED chans
                    ELSE /\ chans' = [chans EXCEPT ![id].closed = TRUE]
                         /\ UNCHANGED fault
               ELSE UNCHANGED <<chans, fault>>
       ELSE UNCHANGED <<subs, chans, fault>>
    /\ busCall' = [op |-> "Unsubscribe", topic |-> topic, id |-> id]
    /\ UNCHANGED <<next, dropped, pubs, published>>
    /\ UNCHANGED <<poolState, held, iocVars, expired, lockVars>>

\* ---- Publish, under b.mu.RLock: look the topic up and copy its channels
PublishBegin(p, topic, payload) ==
    /\ Alive
    /\ pubs[p].pc = "idle"
    /\ published' = published + 1
    /\ pubs' = [pubs EXCEPT ![p] =
                   IF topic \in DOMAIN subs
                   THEN [pc |-> "send", topic |-> topic, payload |-> payload,
                         channels |-> subs[topic], snap |-> subs[topic],
                         handled |-> {}]
                   ELSE NoPublish]
    /\ busCall' = NoBusCall
    /\ UNCHANGED <<subs, next, chans, dropped, fault>>
    /\ UNCHANGED <<poolState, held, iocVars, expired, lockVars>>

\* ---- Publish, after RUnlock: one iteration of the loop over the copy, in
\* the order of the map iteration (unspecified):
\* select { case ch <- payload: default: atomic.AddInt64(&b.dropped, 1) }
PublishSend(p, c) ==
    /\ Alive
    /\ pubs[p].pc = "send"
    /\ c \in pubs[p].channels
    /\ IF chans[c].closed
       THEN /\ fault' = "send on closed channel: subscriber"
            /\ pubs' = [pubs EXCEPT ![p].pc = "panicked"]
            /\ UNCHANGED <<chans, dropped>>
       ELSE /\ IF Len(chans[c].buf) < chans[c].cap
               THEN /\ chans' = [chans EXCEPT ![c].buf = Append(@, pubs[p].payload)]
                    /\ UNCHANGED dropped
               ELSE /\ dropped' = dropped + 1
                    /\ UNCHANGED chans
            /\ pubs' = [pubs EXCEPT ![p] =
                           IF pubs[p].channels = {c}
                           THEN NoPublish
                           ELSE [@ EXCEPT !.channels = @ \ {c},
                                          !.handled = @ \cup {c}]]
            /\ UNCHANGED fault
    /\ busCall' = NoBusCall
    /\ UNCHANGED <<subs, next, published>>
    /\ UNCHANGED <<poolState, held, iocVars, expired, lockVars>>

\* a subscriber receives from its channel
Receive(id) ==
    /\ Alive
    /\ id \in DOMAIN chans
    /\ chans[id].buf # <<>>
    /\ chans' = [chans EXCEPT ![id].buf = Tail(@)]
    /\ busCall' = NoBusCall
    /\ UNCHANGED <<subs, next, dropped, pubs, published, fault>>
    /\ UNCHANGED <<poolState, held, iocVars, expired, lockVars>>

\* ---- DroppedCount / ResetDroppedCount
DroppedCount == dropped

ResetDroppedCount ==
    /\ Alive
    /\ dropped # 0
    /\ dropped' = 0
    /\ busCall' = NoBusCall
    /\ UNCHANGED <<subs, next, chans, pubs, published, fault>>
    /\ UNCHANGED <<poolState, held, iocVars, expired, lockVars>>

\* the payload published on a topic: one kind of event per topic
Event(topic) == topic

\* an event bus with subscribers, concurrent publishers and Unsubscribe calls
NextBus ==
    \/ \E topic \in Topics, buffer \in 0..MaxBuffer :
           next < MaxSubs /\ Subscribe(topic, buffer)
    \/ \E topic \in Topics, id \in 1..MaxSubs : Unsubscribe(topic, id)
    \/ \E p \in Publishers, topic \in Topics :
           published < MaxPublish /\ PublishBegin(p, topic, Event(topic))
    \/ \E p \in Publishers, c \in DOMAIN chans : PublishSend(p, c)
    \/ \E id \in DOMAIN chans : Receive(id)
    \/ ResetDroppedCount

\* a pool of one worker that stays as constructed, a new bus, a new container
InitSingle ==
    /\ NewWorkerModule(1)
    /\ held = NoHeld
    /\ NewEventBus
    /\ NewContainer
    /\ expired = {}
    /\ NewLockState(0)

SpecBus == InitSingle /\ [][NextBus]_vars

\* ---------------------------------------------------------------------------
\* package ioc
\* ---------------------------------------------------------------------------
\* A Provider is told by the Provide call that registered it (reg) and by what
\* it does when invoked (kind): "ok" returns a new instance, "err" an error.
\* An instance carries a serial number and the reg of the provider that made
\* it.  c.data is written by no method of the package: the lookup of Get in it
\* always misses.

\* m without its entry for key: delete(m, key)
DeleteKey(m, key) == [k \in DOMAIN m \ {key} |-> m[k]]

\* m with key set to v: m[key] = v
SetKey(m, key, v) == [k \in DOMAIN m \cup {key} |-> IF k = key THEN v ELSE m[k]]

\* provider invocations so far, and Get calls in progress
RECURSIVE Sum(_, _)
Sum(f, ks) ==
    IF ks = {} THEN 0
    ELSE LET k == CHOOSE x \in ks : TRUE IN f[k] + Sum(f, ks \ {k})

TotalCalls == Sum(calls, Keys)
InFlight == Cardinality({g \in Getters : gets[g].pc # "idle"})

\* the instance a provider of kind "ok" returns: a new object
NewInstance(provider) ==
    [id |-> Cardinality(UNION {made[k] : k \in Keys}) + 1, reg |-> provider.reg]

\* ---- Provide, under c.mu.Lock
Provide(key, kind, single) ==
    /\ Alive
    /\ provides' = [provides EXCEPT ![key] = @ + 1]
    /\ providers' = SetKey(providers, key, [kind |-> kind, reg |-> provides[key] + 1])
    /\ singleton' = SetKey(singleton, key, single)
    /\ IF single
       THEN /\ onces' = Append(onces, "new")
            /\ once' = SetKey(once, key, Len(onces) + 1)
            /\ UNCHANGED instances
       ELSE /\ once' = DeleteKey(once, key)
            /\ instances' = DeleteKey(instances, key)
            /\ UNCHANGED onces
    /\ singles' = (IF single THEN singles \cup {key} ELSE singles)
    /\ UNCHANGED <<gets, calls, made, deletes, returned, clears>>
    /\ UNCHANGED <<poolVars, held, busVars, expired, lockVars>>

\* ---- Delete, under c.mu.Lock
Delete(key) ==
    /\ Alive
    /\ deletes' = [deletes EXCEPT ![key] = @ + 1]
    /\ providers' = DeleteKey(providers, key)
    /\ singleton' = DeleteKey(singleton, key)
    /\ instances' = DeleteKey(instances, key)
    /\ once' = DeleteKey(once, key)
    /\ UNCHANGED <<onces, gets, calls, made, provides, returned>>
    /\ UNCHANGED <<poolVars, held, busVars, expired, lockVars, clears, singles>>

\* ---- Clear, under c.mu.Lock: every map is replaced by an empty one
Clear ==
    /\ Alive
    /\ clears' = clears + 1
    /\ providers' = <<>>
    /\ singleton' = <<>>
    /\ instances' = <<>>
    /\ once' = <<>>
    /\ UNCHANGED <<onces, gets, calls, made, provides, deletes, returned, singles>>
    /\ UNCHANGED <<poolVars, held, busVars, expired, lockVars>>

\* ---- Keys, under c.mu.RLock: the keys of c.data (always empty here) and of
\* c.providers
ContainerKeys == DOMAIN providers

\* Get returns (value, true)
ReturnOK(g, value) ==
    /\ returned' = [returned EXCEPT ![gets[g].key] = @ \cup {value}]
    /\ gets' = [gets EXCEPT ![g] = NoGet]

\* Get returns (nil, false)
ReturnNotOK(g) ==
    /\ gets' = [gets EXCEPT ![g] = NoGet]
    /\ UNCHANGED returned

\* ---- Get, first read-locked section: c.data misses; read the provider and
\* the singleton flag; without provider return (nil, false)
GetBegin(g, key) ==
    /\ Alive
    /\ gets[g].pc = "idle"
    /\ IF key \in DOMAIN providers
       THEN /\ gets' = [gets EXCEPT ![g] =
                          [NoGet EXCEPT !.pc = IF singleton[key] THEN "once" ELSE "call",
                                        !.key = key,
                                        !.provider = providers[key],
                                        !.isSingleton = singleton[key]]]
            /\ UNCHANGED returned
       ELSE ReturnNotOK(g)
    /\ UNCHANGED <<providers, singleton, instances, once, onces, calls, made,
                   provides, deletes>>
    /\ UNCHANGED <<poolVars, held, busVars, expired, lockVars, clears, singles>>

\* ---- Get, singleton, locked section: take c.once[key], or make and store one
GetOnce(g) ==
    LET key == gets[g].key IN
    /\ Alive
    /\ gets[g].pc = "once"
    /\ IF key \in DOMAIN once
       THEN /\ gets' = [gets EXCEPT ![g].once = once[key], ![g].pc = "do"]
            /\ UNCHANGED <<once, onces>>
       ELSE /\ onces' = Append(onces, "new")
            /\ once' = SetKey(once, key, Len(onces) + 1)
            /\ gets' = [gets EXCEPT ![g].once = Len(onces) + 1, ![g].pc = "do"]
    /\ UNCHANGED <<providers, singleton, instances, calls, made, provides,
                   deletes, returned>>
    /\ UNCHANGED <<poolVars, held, busVars, expired, lockVars, clears, singles>>

\* ---- sync.Once.Do
\* Do runs f: no Do of this Once has begun before
DoRuns(o) == onces[o] = "new"

\* Do returns without running f: an earlier Do has finished (a Do that finds
\* f running waits for it)
DoSkips(o) == onces[o] = "done"

GetDo(g) ==
    LET o == gets[g].once IN
    /\ Alive
    /\ gets[g].pc = "do"
    /\ \/ /\ DoRuns(o)
          /\ onces' = [onces EXCEPT ![o] = "running"]
          /\ gets' = [gets EXCEPT ![g].pc = "provider"]
       \/ /\ DoSkips(o)
          /\ gets' = [gets EXCEPT ![g].pc = "after"]
          /\ UNCHANGED onces
    /\ UNCHANGED <<providers, singleton, instances, once, calls, made, provides,
                   deletes, returned>>
    /\ UNCHANGED <<poolVars, held, busVars, expired, lockVars, clears, singles>>

\* ---- Get, singleton, inside Do: instance, e := provider(); on an error set
\* err and leave Do
GetProvider(g) ==
    LET key == gets[g].key
        o == gets[g].once
    IN
    /\ Alive
    /\ gets[g].pc = "provider"
    /\ calls' = [calls EXCEPT ![key] = @ + 1]
    /\ IF gets[g].provider.kind = "err"
       THEN /\ gets' = [gets EXCEPT ![g].err = "provider error", ![g].pc = "after"]
            /\ onces' = [onces EXCEPT ![o] = "done"]
            /\ UNCHANGED made
       ELSE /\ gets' = [gets EXCEPT ![g].instance = NewInstance(gets[g].provider),
                                    ![g].pc = "store"]
            /\ made' = [made EXCEPT ![key] = @ \cup {NewInstance(gets[g].provider)}]
            /\ UNCHANGED onces
    /\ UNCHANGED <<providers, singleton, instances, once, provides, deletes,
                   returned>>
    /\ UNCHANGED <<poolVars, held, busVars, expired, lockVars, clears, singles>>

\* ---- Get, singleton, inside Do: c.instances[key] = instance under the lock;
\* Do is over
GetStore(g) ==
    /\ Alive
    /\ gets[g].pc = "store"
    /\ instances' = SetKey(instances, gets[g].key, gets[g].instance)
    /\ onces' = [onces EXCEPT ![gets[g].once] = "done"]
    /\ gets' = [gets EXCEPT ![g].pc = "after"]
    /\ UNCHANGED <<providers, singleton, once, calls, made, provides, deletes,
                   returned>>
    /\ UNCHANGED <<poolVars, held, busVars, expired, lockVars, clears, singles>>

\* ---- Get, singleton, after Do: (nil, false) when this call's provider
\* invocation failed, otherwise (c.instances[key], true)
GetAfter(g) ==
    LET key == gets[g].key IN
    /\ Alive
    /\ gets[g].pc = "after"
    /\ IF gets[g].err # "nil"
       THEN ReturnNotOK(g)
       ELSE ReturnOK(g, IF key \in DOMAIN instances THEN instances[key] ELSE Nil)
    /\ UNCHANGED <<providers, singleton, instances, once, onces, calls, made,
                   provides, deletes>>
    /\ UNCHANGED <<poolVars, held, busVars, expired, lockVars, clears, singles>>

\* ---- Get, not a singleton: instance, err := provider() and return
GetCall(g) ==
    LET key == gets[g].key IN
    /\ Alive
    /\ gets[g].pc = "call"
    /\ calls' = [calls EXCEPT ![key] = @ + 1]
    /\ IF gets[g].provider.kind = "err"
       THEN /\ ReturnNotOK(g)
            /\ UNCHANGED made
       ELSE /\ ReturnOK(g, NewInstance(gets[g].provider))
            /\ made' = [made EXCEPT ![key] = @ \cup {NewInstance(gets[g].provider)}]
    /\ UNCHANGED <<providers, singleton, instances, once, onces, provides,
                   deletes>>
    /\ UNCHANGED <<poolVars, held, busVars, expired, lockVars, clears, singles>>

\* a container with registrations, re-registrations, deletions, a Clear and
\* concurrent Get calls
NextIoc ==
    \/ \E key \in Keys, kind \in {"ok", "err"}, single \in BOOLEAN :
           Sum(provides, Keys) < MaxProvide /\ Provide(key, kind, single)
    \/ \E key \in Keys : Sum(deletes, Keys) < MaxDelete /\ Delete(key)
    \/ clears < MaxClear /\ Clear
    \/ \E g \in Getters, key \in Keys :
           TotalCalls + InFlight < MaxCalls /\ GetBegin(g, key)
    \/ \E g \in Getters : GetOnce(g)
    \/ \E g \in Getters : GetDo(g)
    \/ \E g \in Getters : GetProvider(g)
    \/ \E g \in Getters : GetStore(g)
    \/ \E g \in Getters : GetAfter(g)
    \/ \E g \in Getters : GetCall(g)

SpecIoc == InitSingle /\ [][NextIoc]_vars

Next ==
    \/ Len(recs) < MaxTasks /\ Cardinality(submitting) < MaxSubmitters /\ Submit
    \/ \E p \in submitting : SubmitSend(p)
    \/ Cancel
    \/ \E ctx \in Contexts : Len(starts) < MaxStarts /\ Start(ctx)
    \/ \E ctx \in Contexts : CtxCancel(ctx)
    \/ StopCloseQuit
    \/ StopCloseSubmit
    \/ StopCloseTask
    \/ \E s \in Scheds : SchedRecv(s)
    \/ \E s \in Scheds : SchedQueueClosed(s)
    \/ \E s \in Scheds : SchedTick(s)
    \/ \E s \in Scheds : SchedQuit(s)
    \/ \E s \in Scheds : SchedCtxDone(s)
    \/ \E s \in Scheds : SchedSend(s)
    \/ \E w \in Workers : WorkerDequeue(w)
    \/ \E w \in Workers : WorkerExit(w)
    \/ \E w \in Workers : WorkerStart(w)
    \/ \E w \in Workers, err \in {"nil", "ExecutionError"} : WorkerFinish(w, err)
    \/ \E w \in Workers : WorkerPanic(w)
    \/ \E w \in Workers : DeadlineExpires(w)
    \/ Len(recs) < MaxTasks /\ Cardinality(submitting) < MaxSubmitters
           /\ SubmitSameClock
    \/ GetInfo

Spec == Init /\ [][Next]_vars

\* the flush pipeline alone: a started or unstarted pool that is neither
\* cancelled nor stopped, with a burst of up to MaxBatch submissions
NextFlush ==
    \/ Len(recs) < MaxBatch /\ submitting = {} /\ Submit
    \/ \E p \in submitting : SubmitSend(p)
    \/ StartOnce
    \/ \E s \in Scheds : SchedRecv(s)
    \/ \E s \in Scheds : SchedTick(s)
    \/ \E s \in Scheds : SchedSend(s)
    \/ \E w \in Workers : WorkerDequeue(w)
    \/ \E w \in Workers : WorkerStart(w)
    \/ \E w \in Workers, err \in {"nil", "ExecutionError"} : WorkerFinish(w, err)

SpecFlush == Init /\ [][NextFlush]_vars

\* a pool that is never cancelled nor stopped, with CancelTask calls
NextCancel ==
    \/ Len(recs) < MaxTasks /\ submitting = {} /\ Submit
    \/ \E p \in submitting : SubmitSend(p)
    \/ Cancel
    \/ StartOnce
    \/ \E s \in Scheds : SchedRecv(s)
    \/ \E s \in Scheds : SchedTick(s)
    \/ \E s \in Scheds : SchedSend(s)
    \/ \E w \in Workers : WorkerDequeue(w)
    \/ \E w \in Workers : WorkerStart(w)
    \/ \E w \in Workers, err \in {"nil", "ExecutionError"} : WorkerFinish(w, err)

SpecCancel == Init /\ [][NextCancel]_vars

\* the lifecycle: Start, Stop and the cancellation of the context, without
\* CancelTask calls
NextStop ==
    \/ Len(recs) < MaxTasks /\ submitting = {} /\ Submit
    \/ \E p \in submitting : SubmitSend(p)
    \/ StartOnce
    \/ CtxCancelStarted
    \/ StopCloseQuit
    \/ StopCloseSubmit
    \/ StopCloseTask
    \/ \E s \in Scheds : SchedRecv(s)
    \/ \E s \in Scheds : SchedQueueClosed(s)
    \/ \E s \in Scheds : SchedTick(s)
    \/ \E s \in Scheds : SchedQuit(s)
    \/ \E s \in Scheds : SchedCtxDone(s)
    \/ \E s \in Scheds : SchedSend(s)
    \/ \E w \in Workers : WorkerDequeue(w)
    \/ \E w \in Workers : WorkerExit(w)
    \/ \E w \in Workers : WorkerStart(w)
    \/ \E w \in Workers, err \in {"nil", "ExecutionError"} : WorkerFinish(w, err)

SpecStop == Init /\ [][NextStop]_vars

\* the flush pipeline of a pool whose goroutines keep being scheduled and
\* whose Execute calls all return: the scheduler takes every case of its select
\* that stays ready (the ticker fires every 100ms), a worker receives from a
\* non-empty taskQueue and every Execute call ends
Fairness ==
    /\ WF_vars(StartOnce)
    /\ WF_vars(1 \in Scheds /\ SchedRecv(1))
    /\ WF_vars(1 \in Scheds /\ SchedTick(1))
    /\ WF_vars(1 \in Scheds /\ SchedSend(1))
    /\ \A w \in 1..MaxWorkers :
           /\ WF_vars(w \in Workers /\ WorkerDequeue(w))
           /\ WF_vars(w \in Workers /\ WorkerStart(w))
           /\ WF_vars(w \in Workers /\ \E err \in {"nil", "ExecutionError"} :
                                           WorkerFinish(w, err))

SpecLive == Init /\ [][NextFlush]_vars /\ Fairness

\* a pool that is neither cancelled nor stopped, running tasks whose Execute
\* may panic
NextPanic ==
    \/ Len(recs) < MaxTasks /\ submitting = {} /\ Submit
    \/ \E p \in submitting : SubmitSend(p)
    \/ StartOnce
    \/ \E s \in Scheds : SchedRecv(s)
    \/ \E s \in Scheds : SchedTick(s)
    \/ \E s \in Scheds : SchedSend(s)
    \/ \E w \in Workers : WorkerDequeue(w)
    \/ \E w \in Workers : WorkerStart(w)
    \/ \E w \in Workers, err \in {"nil", "ExecutionError"} : WorkerFinish(w, err)
    \/ \E w \in Workers : WorkerPanic(w)

SpecPanic == Init /\ [][NextPanic]_vars

\* a pool that is neither cancelled nor stopped, with GetTaskInfo calls
NextInfo ==
    \/ Len(recs) < MaxTasks /\ submitting = {} /\ Submit
    \/ \E p \in submitting : SubmitSend(p)
    \/ GetInfo
    \/ StartOnce
    \/ \E s \in Scheds : SchedRecv(s)
    \/ \E s \in Scheds : SchedTick(s)
    \/ \E s \in Scheds : SchedSend(s)
    \/ \E w \in Workers : WorkerDequeue(w)
    \/ \E w \in Workers : WorkerStart(w)
    \/ \E w \in Workers, err \in {"nil", "ExecutionError"} : WorkerFinish(w, err)

SpecInfo == Init /\ [][NextInfo]_vars

\* a pool that is neither cancelled nor stopped, with submissions that may
\* read the same clock value
NextIDs ==
    \/ Len(recs) < MaxTasks /\ Cardinality(submitting) < MaxSubmitters /\ Submit
    \/ \E p \in submitting : SubmitSend(p)
    \/ Len(recs) < MaxTasks /\ Cardinality(submitting) < MaxSubmitters
           /\ SubmitSameClock
    \/ StartOnce
    \/ \E s \in Scheds : SchedRecv(s)
    \/ \E s \in Scheds : SchedTick(s)
    \/ \E s \in Scheds : SchedSend(s)
    \/ \E w \in Workers : WorkerDequeue(w)
    \/ \E w \in Workers : WorkerStart(w)
    \/ \E w \in Workers, err \in {"nil", "ExecutionError"} : WorkerFinish(w, err)

SpecIDs == Init /\ [][NextIDs]_vars

\* tasks with a timeout: the deadline may pass during any execution
NextTimeout ==
    \/ Len(recs) < MaxTasks /\ submitting = {} /\ Submit
    \/ \E p \in submitting : SubmitSend(p)
    \/ StartOnce
    \/ \E s \in Scheds : SchedRecv(s)
    \/ \E s \in Scheds : SchedTick(s)
    \/ \E s \in Scheds : SchedSend(s)
    \/ \E w \in Workers : WorkerDequeue(w)
    \/ \E w \in Workers : WorkerStart(w)
    \/ \E w \in Workers : DeadlineExpires(w)
    \/ \E w \in Workers, err \in {"nil", "ExecutionError"} : WorkerFinish(w, err)

SpecTimeout == InitSingle /\ [][NextTimeout]_vars

\* one record, the worker that dequeues it, a CancelTask call and two
\* goroutines calling GetTaskInfo, at the granularity of the mutex
NextLock ==
    \/ WorkerCheckBegin
    \/ WorkerCheckEnd
    \/ ExecuteFirstBegin
    \/ ExecuteFirstEnd
    \/ ExecuteSecondBegin
    \/ \E err \in {"nil", "ExecutionError"}, send \in {"sent", "full", "closed"} :
           ExecuteSecondEnd(err, send)
    \/ CancelTaskBegin
    \/ CancelTaskEnd
    \/ \E u \in {"info1", "info2"} : GetTaskInfoBegin(u)
    \/ \E u \in {"info1", "info2"} : GetTaskInfoEnd(u)

\* the record of a task with any retry budget
InitLock ==
    /\ NewWorkerModule(1)
    /\ held = NoHeld
    /\ NewEventBus
    /\ NewContainer
    /\ expired = {}
    /\ \E retry \in 0..MaxRetry : NewLockState(retry)

SpecLock == InitLock /\ [][NextLock]_vars

\* a pool whose context is cancelled at any moment; Stop is not called
NextCtx ==
    \/ Len(recs) < MaxTasks /\ submitting = {} /\ Submit
    \/ \E p \in submitting : SubmitSend(p)
    \/ StartOnce
    \/ CtxCancelStarted
    \/ \E s \in Scheds : SchedRecv(s)
    \/ \E s \in Scheds : SchedTick(s)
    \/ \E s \in Scheds : SchedCtxDone(s)
    \/ \E s \in Scheds : SchedSend(s)
    \/ \E w \in Workers : WorkerDequeue(w)
    \/ \E w \in Workers : WorkerExit(w)
    \/ \E w \in Workers : WorkerStart(w)
    \/ \E w \in Workers, err \in {"nil", "ExecutionError"} : WorkerFinish(w, err)

\* the goroutines keep running and every Execute returns; a select whose
\* ctx.Done() case is ready again and again takes it in the end (the runtime
\* picks among the ready cases at random).  Nothing is assumed of the callers:
\* no further SubmitTask is needed for a goroutine to move.
FairnessCtx ==
    /\ SF_vars(1 \in Scheds /\ SchedCtxDone(1))
    /\ WF_vars(1 \in Scheds /\ SchedSend(1))
    /\ \A w \in 1..MaxWorkers :
           /\ SF_vars(w \in Workers /\ WorkerExit(w))
           /\ WF_vars(w \in Workers /\ WorkerStart(w))
           /\ WF_vars(w \in Workers /\ \E err \in {"nil", "ExecutionError"} :
                                           WorkerFinish(w, err))

SpecCtx == Init /\ [][NextCtx]_vars /\ FairnessCtx

\* a pool of one worker per Start call that is started up to MaxStarts times,
\* each time with a context of its own or with the one of another call; the
\* contexts are cancelled at any moment; Stop is not called
NextCtxStarts ==
    \/ Len(recs) < MaxCtxTasks /\ submitting = {} /\ Submit
    \/ \E p \in submitting : SubmitSend(p)
    \/ \E ctx \in Contexts : Len(starts) < MaxStarts /\ Start(ctx)
    \/ \E ctx \in Range(starts) : CtxCancel(ctx)
    \/ \E s \in Scheds : SchedRecv(s)
    \/ \E s \in Scheds : SchedTick(s)
    \/ \E s \in Scheds : SchedCtxDone(s)
    \/ \E s \in Scheds : SchedSend(s)
    \/ \E w \in Workers : WorkerDequeue(w)
    \/ \E w \in Workers : WorkerExit(w)
    \/ \E w \in Workers : WorkerStart(w)
    \/ \E w \in Workers, err \in {"nil", "ExecutionError"} : WorkerFinish(w, err)

\* FairnessCtx for the goroutines of every Start call
FairnessCtxStarts ==
    /\ \A s \in 1..MaxStarts :
           /\ SF_vars(s \in Scheds /\ SchedCtxDone(s))
           /\ WF_vars(s \in Scheds /\ SchedSend(s))
    /\ \A w \in 1..MaxStarts :
           /\ SF_vars(w \in Workers /\ WorkerExit(w))
           /\ WF_vars(w \in Workers /\ WorkerStart(w))
           /\ WF_vars(w \in Workers /\ \E err \in {"nil", "ExecutionError"} :
                                           WorkerFinish(w, err))

SpecCtxStarts == InitSingle /\ [][NextCtxStarts]_vars /\ FairnessCtxStarts

\* the flush pipeline of a pool of one worker per Start call that is started
\* up to MaxStarts times: the workers and the schedulers of all the calls read
\* the same channels
NextStarts ==
    \/ Len(recs) < MaxBatch /\ submitting = {} /\ Submit
    \/ \E p \in submitting : SubmitSend(p)
    \/ Len(starts) < MaxStarts /\ Start(1)
    \/ \E s \in Scheds : SchedRecv(s)
    \/ \E s \in Scheds : SchedTick(s)
    \/ \E s \in Scheds : SchedSend(s)
    \/ \E w \in Workers : WorkerDequeue(w)
    \/ \E w \in Workers : WorkerStart(w)
    \/ \E w \in Workers, err \in {"nil", "ExecutionError"} : WorkerFinish(w, err)

SpecStarts == InitSingle /\ [][NextStarts]_vars

\* ---------------------------------------------------------------------------
\* Properties
\* ---------------------------------------------------------------------------

\* what scheduler s holds: the slice pendingTasks it appends to, or, inside
\* flushPendingTasks, the records of that slice still to be sent; nothing once
\* it has returned
SchedHolds(s) == pendingTasks[s] \o batch[s]

\* where a record can be: the queues, the schedulers' slices, a worker's hands
Held == {wtask[w] : w \in DOMAIN wtask} \ {0}
Located == Range(submitQueue) \cup UNION {Range(SchedHolds(s)) : s \in Scheds}
               \cup Range(taskQueue) \cup Held

\* C1: once CancelTask has returned true for a record, Execute is never invoked
\* for it again and the record stays Cancelled, whatever the dispatcher and the
\* workers do afterwards.
C1_CancelledNeverRuns ==
    [][\A p \in Ptrs : recs[p].cancelOK =>
           /\ recs'[p].status = TaskStatusCancelled
           /\ recs'[p].execs = recs[p].execs]_vars

\* the legal status transitions
LegalTransitions ==
    {<<TaskStatusPending, TaskStatusRunning>>,
     <<TaskStatusPending, TaskStatusCancelled>>,
     <<TaskStatusRunning, TaskStatusCompleted>>,
     <<TaskStatusRunning, TaskStatusFailed>>,
     <<TaskStatusRunning, TaskStatusPending>>}

\* C2: every change of a record's status is one of the legal transitions; a
\* Completed, Failed or Cancelled record never changes status again.
C2_LegalTransitions ==
    [][\A p \in Ptrs : recs'[p].status # recs[p].status =>
           <<recs[p].status, recs'[p].status>> \in LegalTransitions]_vars

\* C3: a CancelTask(id) call returns true exactly when the registry holds a
\* record for id whose status is Pending at the call; it then sets that record
\* to Cancelled and changes nothing else; otherwise (unknown id, or a Running,
\* Completed, Failed or Cancelled record) it returns false and changes no
\* record, no queue and no goroutine.
C3_CancelOnlyPending ==
    [][ret'.op = "Cancel" =>
          LET id == ret'.id
              pending == id \in DOMAIN tasks
                           /\ recs[tasks[id]].status = TaskStatusPending
          IN  /\ (ret'.result = "true") <=> pending
              /\ ret'.result \in {"true", "false"}
              /\ Len(recs') = Len(recs)
              /\ \A p \in Ptrs :
                    Fields(recs'[p]) =
                        IF pending /\ p = tasks[id]
                        THEN [Fields(recs[p]) EXCEPT !.status = TaskStatusCancelled]
                        ELSE Fields(recs[p])
              /\ UNCHANGED <<tasks, submitQueue, taskQueue, pendingTasks, batch,
                             wpc, wtask, schedPc, fault, submitting>>]_vars

\* C3 witness: CancelTask has just returned true on a record that is now
\* Cancelled while another record is Running
C3_Witness ==
    /\ ret.op = "Cancel"
    /\ ret.result = "true"
    /\ recs[tasks[ret.id]].status = TaskStatusCancelled
    /\ \E p \in Ptrs : recs[p].status = TaskStatusRunning

\* C4: a record whose sends never found a queue full has been executed once
\* more than it has been retried when it is Running, Completed or Failed, and
\* it is Failed only with its retry budget used up: a task that fails every
\* time is executed exactly Retry() + 1 times and then is Failed with
\* Retries = Retry().
C4_RetryBound ==
    \A p \in Ptrs : ~recs[p].full =>
        /\ recs[p].retries <= recs[p].retry
        /\ recs[p].execs <= recs[p].retry + 1
        /\ recs[p].status \in {TaskStatusRunning, TaskStatusCompleted, TaskStatusFailed}
               => recs[p].execs = recs[p].retries + 1
        /\ recs[p].status = TaskStatusPending => recs[p].execs = recs[p].retries
        /\ recs[p].status = TaskStatusFailed =>
               /\ recs[p].retries = recs[p].retry
               /\ recs[p].execs = recs[p].retry + 1
               /\ recs[p].err = "ExecutionError"

\* C4 witness: a task with the largest retry budget has failed every time and
\* is Failed after budget + 1 executions
C4_Witness ==
    \E p \in Ptrs :
        /\ ~recs[p].full
        /\ recs[p].retry = MaxRetry
        /\ recs[p].status = TaskStatusFailed
        /\ recs[p].execs = MaxRetry + 1

\* the records submitted in flush window k have pairwise distinct priorities
DistinctPriorities(k) ==
    \A a, b \in Ptrs :
        (recs[a].win = k /\ recs[b].win = k /\ a # b) => recs[a].prio # recs[b].prio

\* C5: with one worker, of two tasks submitted within the same flush window
\* (all of its tasks having distinct priorities) the one with the higher
\* priority starts executing first.
C5_PriorityOrder ==
    [][workerCount = 1 =>
          \A a, b \in Ptrs :
              (/\ recs[b].execs = 0
               /\ recs'[b].execs = 1
               /\ recs[a].win = recs[b].win
               /\ recs[b].win < window
               /\ DistinctPriorities(recs[b].win)
               /\ recs[a].prio < recs[b].prio)
              => recs[a].execs = 0]_vars

\* C6: in the batch a flush forwards, two records of equal priority that are
\* on their first trip (never retried) stand in the order of their submission.
C6_StableTieBreak ==
    \A s \in Scheds : \A i, j \in 1..Len(batch[s]) :
        (/\ i < j
         /\ recs[batch[s][i]].prio = recs[batch[s][j]].prio
         /\ recs[batch[s][i]].retries = 0
         /\ recs[batch[s][j]].retries = 0)
        => batch[s][i] < batch[s][j]

\* C7: when SubmitTask has returned the queue-full error, the record it
\* registered is Failed, and the call did not panic.
C7_QueueFullMarksFailed ==
    (ret.op = "Submit" /\ ret.result = "QueueFull") =>
        /\ recs[tasks[ret.id]].status = TaskStatusFailed
        /\ fault = "none"

\* C8: a record that SubmitTask put on the submission queue is never Pending
\* while it is in neither queue, nor in the scheduler's slices, nor in a
\* worker's hands.
C8_NoSilentDrop ==
    \A p \in Ptrs :
        (recs[p].accepted /\ recs[p].status = TaskStatusPending /\ fault = "none")
            => p \in Located

\* C9: a SubmitTask call made after Stop has returned gives the pool-closed
\* error: when the call reaches its send and returns, it does not panic and
\* does not enqueue the task.
C9_SubmitAfterStop ==
    [][\A p \in submitting \ submitting' :
          recs[p].afterStop =>
              /\ ret'.result = "PoolClosed"
              /\ fault' = "none"
              /\ submitQueue' = submitQueue]_vars

\* C10: a Stop call that begins on a stopped pool (an earlier Stop has
\* returned) does not panic.
C10_StopTwice ==
    [][(stopPc = "returned" /\ stopCalls' # stopCalls) => fault' = "none"]_vars

\* the goroutines that Start spawned and that have not returned
Running == {w \in Workers : wpc[w] # "exited"}

\* C11: once Stop has returned, the scheduler and every worker that Start
\* spawned have returned, so no Execute call is in progress.
C11_StopWaits ==
    stopPc = "returned" =>
        /\ \A s \in Scheds : schedPc[s] = "exited"
        /\ Running = {}

\* C12: a panic raised by a task's Execute is caught by the worker: it never
\* ends the process, so the worker and the pool keep running.
C12_PanicCaught == fault # ExecutePanic

\* C13: a SubmitTask call registers its record under an identifier that the
\* registry does not hold yet, and every identifier already in the registry
\* keeps naming the record it named, also when two calls read the same clock
\* value.
C13_FreshIdentifier ==
    [][Len(recs') = Len(recs) + 1 =>
          /\ recs'[Len(recs')].ID \notin DOMAIN tasks
          /\ \A id \in DOMAIN tasks : tasks'[id] = tasks[id]]_vars

\* the statuses that end a task's life
Terminal == {TaskStatusCompleted, TaskStatusFailed, TaskStatusCancelled}

\* C14: in a started pool that is neither stopped nor cancelled and whose
\* Execute calls all return, every record that SubmitTask put on the submission
\* queue (it returned the identifier without error) eventually is Completed,
\* Failed or Cancelled; a full queue never leaves it Pending forever.
C14_AcceptedFinishes ==
    \A p \in 1..MaxBatch :
        []((p \in Ptrs /\ recs[p].accepted) =>
               <>(p \in Ptrs /\ recs[p].status \in Terminal))

\* what the caller of GetTaskInfo reads through the *TaskInfo it was given
HeldValue == Fields(recs[held.ptr])

\* C15: the record that GetTaskInfo returned is a snapshot: whatever happens to
\* the task afterwards, the caller still reads the values of the moment of the
\* call.
C15_Snapshot == held.ptr # 0 => HeldValue = held.seen

\* C16: while Publish and Unsubscribe run concurrently on a topic, no step of
\* a Publish call sends on a channel that Unsubscribe has closed: the step
\* finds its channel open and does not panic.
C16_NoSendOnClosed ==
    [][\A p \in Publishers :
          (pubs[p].pc = "send" /\ pubs'[p] # pubs[p]) =>
              /\ pubs'[p].pc # "panicked"
              /\ fault' = "none"
              /\ \A c \in pubs[p].channels \ pubs'[p].channels : ~chans[c].closed]_vars

\* the channel that the step of publisher p has served, if any
Served(p) ==
    IF pubs'[p].pc = "panicked" THEN {}
    ELSE pubs[p].channels \ (IF pubs'[p].pc = "send" THEN pubs'[p].channels ELSE {})

\* C17: a Publish call delivers to the subscribers of its topic and to nobody
\* else: it takes the channels of the topic; each delivery appends the payload
\* when the buffer has room and otherwise leaves the buffer alone and adds one
\* to DroppedCount; no other channel changes; and when the call ends, every
\* subscriber it took that is still subscribed has been served.
C17_PublishDelivers ==
    [][\A p \in Publishers :
          /\ (pubs[p].pc = "idle" /\ pubs'[p].pc = "send") =>
                 /\ pubs'[p].snap = Subscribers(pubs'[p].topic)
                 /\ chans' = chans
                 /\ dropped' = dropped
          /\ (pubs[p].pc = "send" /\ pubs'[p] # pubs[p]) =>
                 /\ \A c \in Served(p) :
                        IF Len(chans[c].buf) < chans[c].cap
                        THEN /\ chans'[c].buf = Append(chans[c].buf, pubs[p].payload)
                             /\ dropped' = dropped
                        ELSE /\ chans'[c] = chans[c]
                             /\ dropped' = dropped + 1
                 /\ \A id \in DOMAIN chans \ Served(p) : chans'[id] = chans[id]
                 /\ pubs'[p].pc # "send" =>
                        \A id \in pubs[p].snap \cap Subscribers(pubs[p].topic) :
                            id \in pubs[p].handled \cup Served(p)]_vars

\* the subscriptions of a topic in the map s
Members(s, topic) == IF topic \in DOMAIN s THEN s[topic] ELSE {}

\* C20: an Unsubscribe(topic, id) call on a subscription of the topic removes
\* it and closes its channel, which was open, and touches no other
\* subscription; on anything else (the id already removed, an unknown id or
\* topic) it changes nothing; it never panics; a channel is closed by no other
\* step and never reopens; and no topic is kept with an empty subscriber set.
C20_UnsubscribeOnce ==
    [][/\ busCall'.op = "Unsubscribe" =>
              LET topic == busCall'.topic
                  id == busCall'.id
              IN  /\ fault' = "none"
                  /\ IF id \in Members(subs, topic)
                     THEN /\ Members(subs', topic) = Members(subs, topic) \ {id}
                          /\ ~chans[id].closed
                          /\ chans' = [chans EXCEPT ![id].closed = TRUE]
                          /\ \A t \in Topics \ {topic} :
                                 Members(subs', t) = Members(subs, t)
                     ELSE /\ subs' = subs
                          /\ chans' = chans
                  /\ UNCHANGED <<next, dropped, pubs, published>>
       /\ \A c \in DOMAIN chans :
              /\ chans[c].closed => chans'[c].closed
              /\ (~chans[c].closed /\ chans'[c].closed) =>
                     (busCall'.op = "Unsubscribe" /\ busCall'.id = c)
       /\ \A t \in DOMAIN subs' : subs'[t] # {}]_vars

\* C20 witness: Unsubscribe has just returned for a subscription whose channel
\* is closed and whose topic is gone from the map, while the other topic keeps
\* its subscriber
C20_Witness ==
    /\ busCall.op = "Unsubscribe"
    /\ busCall.id \in DOMAIN chans
    /\ chans[busCall.id].closed
    /\ busCall.topic \notin DOMAIN subs
    /\ \E t \in DOMAIN subs : subs[t] # {}

\* the key was registered by exactly one Provide call, with singleton = true
SingletonOnce(key) == provides[key] = 1 /\ key \in singles

\* C18: for a key registered once as a singleton, the provider has been
\* invoked at most once and all the Get calls that returned ok = true, the
\* concurrent ones included, returned one and the same value.
C18_SingletonOnce ==
    \A key \in Keys : SingletonOnce(key) =>
        /\ calls[key] <= 1
        /\ Cardinality(returned[key]) <= 1
        /\ Cardinality(made[key]) <= 1
        /\ returned[key] \subseteq made[key] \cup {Nil}
        /\ \A v \in returned[key] : v = Nil => made[key] = {}

\* C19: while every invocation of a key's provider has returned an error, so
\* that no instance was ever created for the key, no Get of the key has
\* returned ok = true: not the first one, not a later or a concurrent one.
C19_ProviderErrorNotOK ==
    \A key \in Keys : (calls[key] >= 1 /\ made[key] = {}) => returned[key] = {}

\* ---- executeTask: the outcome of one Execute call

\* worker w leaves executeTask in this step: Execute returned and the second
\* critical section ran
Finishing(w) == wpc[w] = "exec" /\ wpc'[w] # "exec"

\* C21: when an execution fails with retries left and the non-blocking send
\* back to the submission queue finds it full, the record becomes Failed, its
\* error is the retry-queue-full reason, and the record is on no queue.
C21_RetryQueueFull ==
    [][\A w \in Workers :
          (/\ Finishing(w)
           /\ ShouldRetry(wtask[w])
           /\ ~submitClosed
           /\ Len(submitQueue) = QueueCap
           /\ recs'[wtask[w]].status # TaskStatusCompleted)
          => /\ recs'[wtask[w]].status = TaskStatusFailed
             /\ recs'[wtask[w]].err = "RetryQueueFull"
             /\ wtask[w] \notin Located']_vars

\* C22: every return of Execute is routed one of three ways.  Success: the
\* record is Completed.  Failure with retries left: the retry count grows by
\* one, the record is Pending again and is appended once to the submission
\* queue.  Failure with no retries left: the record is Failed and keeps the
\* error of this execution.
C22_OutcomeRouting ==
    [][\A w \in Workers :
          Finishing(w) =>
            LET p == wtask[w] IN
            \/ /\ recs'[p].status = TaskStatusCompleted
               /\ recs'[p].retries = recs[p].retries
               /\ submitQueue' = submitQueue
            \/ /\ ShouldRetry(p)
               /\ recs'[p].retries = recs[p].retries + 1
               /\ recs'[p].status = TaskStatusPending
               /\ submitQueue' = Append(submitQueue, p)
               /\ fault' = "none"
            \/ /\ ~ShouldRetry(p)
               /\ recs'[p].retries = recs[p].retries
               /\ recs'[p].status = TaskStatusFailed
               /\ recs'[p].err = "ExecutionError"
               /\ submitQueue' = submitQueue]_vars

\* ---- the retry budget

\* a pool that is never cancelled nor stopped, with CancelTask calls and enough
\* tasks to fill the submission queue behind a failing one; the tasks differ in
\* their retry budget only, all have the same priority
NextRetry ==
    \/ /\ Len(recs) < MaxBatch
       /\ submitting = {}
       /\ \E retry \in 0..MaxRetry : SubmitTask(now + 1, 1, retry)
    \/ \E p \in submitting : SubmitSend(p)
    \/ Cancel
    \/ StartOnce
    \/ \E s \in Scheds : SchedRecv(s)
    \/ \E s \in Scheds : SchedTick(s)
    \/ \E s \in Scheds : SchedSend(s)
    \/ \E w \in Workers : WorkerDequeue(w)
    \/ \E w \in Workers : WorkerStart(w)
    \/ \E w \in Workers, err \in {"nil", "ExecutionError"} : WorkerFinish(w, err)

SpecRetry == InitSingle /\ [][NextRetry]_vars

\* C23: in every reachable state the retry count of every record lies between
\* 0 and its retry budget, and Execute has been invoked for it at most budget
\* + 1 times, whether executions fail, records are cancelled or queues are full.
C23_RetryBudget ==
    \A p \in Ptrs :
        /\ recs[p].retries >= 0
        /\ recs[p].retries <= recs[p].retry
        /\ recs[p].execs <= recs[p].retry + 1

\* one record used its whole budget, one met a full submission queue on its
\* retry, and one was cancelled
C23_Witness ==
    /\ \E p \in Ptrs : /\ recs[p].retry > 0
                       /\ recs[p].execs = recs[p].retry + 1
                       /\ ~recs[p].full
                       /\ recs[p].status = TaskStatusFailed
    /\ \E p \in Ptrs : /\ recs[p].full
                       /\ recs[p].status = TaskStatusFailed
                       /\ recs[p].retries = recs[p].retry
    /\ \E p \in Ptrs : recs[p].cancelOK

\* ---- the scheduler's last flush

\* C24: when the scheduler has taken a shutdown signal (quit closed, ctx done
\* or submitQueue closed) with a non-empty batch, every send of that last
\* flush puts its record on the task queue and none of them faults, however
\* the steps of Stop interleave with it.
C24_FinalFlush ==
    [][\A s \in Scheds :
          (schedPc[s] = "flush" /\ schedExit[s]) =>
              /\ fault' # "send on closed channel: taskQueue"
              /\ batch'[s] # batch[s] =>
                     taskQueue' = Append(taskQueue, Head(batch[s]))]_vars

\* ---- the scheduler's tick

\* scheduler s, and no other, takes the ticker case in this step: it starts a
\* flush that is not an exit flush, or it finds nothing pending
TickFires(s) ==
    /\ schedPc[s] = "select"
    /\ ret' = Ticked(s)

\* C25: the tick takes every record that is on the submission queue at that
\* moment into the batch it sorts and forwards, leaving none for a later tick;
\* a tick that finds nothing submitted and nothing pending changes nothing.
C25_TickDrains ==
    [][\A s \in Scheds :
          TickFires(s) =>
              /\ submitQueue' = <<>>
              /\ Range(submitQueue) \subseteq Range(batch'[s])
              /\ (submitQueue = <<>> /\ pendingTasks[s] = <<>>) =>
                    UNCHANGED <<recs, tasks, submitQueue, taskQueue, pendingTasks,
                                batch, schedPc>>]_vars

\* ---- where a record is

\* the slots of the schedulers' slices
SchedSlots == UNION {{<<s, i>> : i \in DOMAIN SchedHolds(s)} : s \in Scheds}

\* the number of slots of queue q that hold record p
Slots(q, p) == Cardinality({i \in DOMAIN q : q[i] = p})

\* the number of places that hold record p: queue and slice slots, and workers
Copies(p) ==
    Slots(submitQueue, p) + Slots(taskQueue, p)
        + Cardinality({x \in SchedSlots : SchedHolds(x[1])[x[2]] = p})
        + Cardinality({w \in DOMAIN wtask : wtask[w] = p})

\* C29: in every reachable state every record is in at most one place: one
\* slot of the submission queue, of the scheduler's batch or of the task
\* queue, or one worker's hands; never twice in a queue, never with two
\* workers, also after retries.
C29_OnePlace == \A p \in Ptrs : Copies(p) <= 1

\* a pool started twice: a record is on its second execution with the worker
\* of the second call while the two other records are on the submission queue
\* and on the schedulers' or the workers' side
C29_Witness ==
    \E p \in Ptrs :
        /\ Len(starts) = 2
        /\ recs[p].retries >= 1
        /\ recs[p].execs = 2
        /\ wtask[2] = p
        /\ submitQueue # <<>>
        /\ SchedSlots # {} \/ taskQueue # <<>>

\* ---- re-registration of a singleton

\* C30: once Provide has registered a singleton provider over an earlier
\* registration of the key, every Get of the key that starts afterwards (it
\* reads the new provider in its first section) and returns an instance
\* returns one that the new provider created, also while a Get that started
\* before the re-registration is still in progress.
C30_ReRegistered ==
    [][\A g \in Getters :
          LET key == gets[g].key IN
          (/\ gets[g].pc = "after"
           /\ gets'[g].pc = "idle"
           /\ gets[g].err = "nil"
           /\ gets[g].provider.reg >= 2
           /\ deletes[key] = 0
           /\ key \in DOMAIN instances)
          => instances[key].reg = gets[g].provider.reg]_vars

\* ---- the deadline of an execution

\* the executions of record p so far whose deadline passed before Execute
\* returned
Overran(p) == {n \in 1..recs[p].execs : <<p, n>> \in expired}

\* C28: an execution whose deadline passed before Execute returned ends as a
\* failure (a retry or Failed), never as Completed; the deadline runs during
\* the execution only, not while the record waits in a queue.
C28_DeadlineFails ==
    \A p \in Ptrs :
        /\ (recs[p].execs \in Overran(p)) => recs[p].status # TaskStatusCompleted
        /\ \A e \in expired : e[1] = p => e[2] \in 1..recs[p].execs

\* ---- the lock discipline

\* unit u holds the mutex in the mode its access a needs
Covered(u, a) ==
    IF a.kind = "write" THEN mu.writer = u
    ELSE mu.writer = u \/ u \in mu.readers

\* C26: every access of the workers, CancelTask and GetTaskInfo to a mutable
\* field of a record is made with tasksMutex held, exclusively for a write and
\* at least shared for a read, and no two execution units are at the same
\* field at the same time when one of them writes it.
C26_LockDiscipline ==
    /\ \A u \in Units : \A a \in access[u] : Covered(u, a)
    /\ \A u, v \in Units : \A a \in access[u], b \in access[v] :
           (u # v /\ a.field = b.field) => (a.kind = "read" /\ b.kind = "read")

\* ---- exit on a cancelled context

\* the scheduler and every worker of the g-th Start call have returned
Exited(g) ==
    /\ schedPc[g] = "exited"
    /\ \A w \in Workers : Gen(w) = g => wpc[w] = "exited"

\* every goroutine spawned so far has returned
AllExited == \A g \in Scheds : Exited(g)

\* C27: once the context given to a Start call is cancelled, the scheduler and
\* every worker of that call return in the end, given that every Execute in
\* progress returns; no further queue item is needed for that, and they stay
\* returned.
C27_ExitOnCancel ==
    \A g \in 1..MaxStarts :
        (g \in Scheds /\ ctxDone[SchedCtx(g)]) ~> [](g \in Scheds /\ Exited(g))

\* the context is cancelled, two workers and the scheduler have returned, one
\* record was executed and another is still on a queue, never waited for
C27_Witness ==
    /\ started
    /\ ctxDone[SchedCtx(1)]
    /\ workerCount = 2
    /\ AllExited
    /\ \E p \in Ptrs : recs[p].execs >= 1
    /\ submitQueue \o taskQueue # <<>>

====
